---------------------------- MODULE Spec2Model ----------------------------
(***************************************************************************)
(* Model of policy_exclusions_stats.py: the policy listing, the pooled     *)
(* per-policy fetch (get_policy), the two exclusion parsers, the merge on  *)
(* the orchestrating thread in main() and exclusion_report.                *)
(*                                                                         *)
(* Representation.                                                         *)
(*   - A text is a sequence of one-character strings, so that split("|")   *)
(*     and int() are computed and not assumed.                             *)
(*   - A pandas DataFrame is a bag of rows (a row is a function from the   *)
(*     column names of the source to values).  Row order is dropped: no    *)
(*     operation of the program that is modelled here reads it.            *)
(*   - A policy XML document is reduced to the payload texts below its     *)
(*     exclusions/info and exclusions/process elements.  Every payload     *)
(*     carries the link of the policy resource it was served for (src), a  *)
(*     history field that the program never reads.                         *)
(***************************************************************************)
EXTENDS Integers, Sequences, FiniteSets, Bags, TLC

(* Bounds of the model. *)
MaxPolicies == 3
(* Width of the worker pool in the model.  The program's pool has 10      *)
(* workers (line 444); the model scales it down so that a run with more   *)
(* policies than workers is reachable.                                     *)
max_workers == 2
(* Largest flag value the parser is applied to in SpecParse. *)
MaxFlag == 300

VARIABLES
    main_pc,        \* position of main(): see the actions below
    crash,          \* the function whose exception ended main(), or "none"
    policies,       \* the list returned by get_policy_list
    submitted,      \* number of get_policy futures submitted so far
    task,           \* the executor's futures: task id -> [st, exc, root, frame]
    queue,          \* the executor's FIFO work queue (task ids)
    yielded,        \* policy links whose future as_completed has yielded
    cur,            \* the loop's variables: link of the yielded future, policy, policy_xml
    list_response,  \* the HTTP response get_policy_list received
    responses,      \* link -> the HTTP response get_policy received
    files,          \* link -> the <policy_name>.xml file
    log_errors,     \* queries for which HttpResp.status called LOG.error
    df_paths,       \* main's merged path-exclusion frame
    df_processes,   \* main's merged process-exclusion frame
    path_exc,       \* exclusion_report: the crosstab
    pvt_process,    \* exclusion_report: the pivot table
    caution_list,   \* exclusion_report: policies with 90 - 100 exclusions
    warning_list,   \* exclusion_report: policies with over 100 exclusions
    output,         \* exclusion_report: the printed blocks, in order
    arg_xml,        \* SpecParse: the document handed to the parser
    ret             \* SpecParse: what the parser returned

vars == <<main_pc, crash, policies, submitted, task, queue, yielded, cur,
          list_response, responses, files, log_errors, df_paths, df_processes, path_exc,
          pvt_process, caution_list, warning_list, output, arg_xml, ret>>

-----------------------------------------------------------------------------
(* Texts *)

Digits == <<"0", "1", "2", "3", "4", "5", "6", "7", "8", "9">>

IsDigit(c) == \E d \in 1..10 : Digits[d] = c

DigitVal(c) == (CHOOSE d \in 1..10 : Digits[d] = c) - 1

(* str.split(sep): the maximal separator-free pieces, empty ones included: *)
(* one more piece than there are separators, the j-th piece lying between  *)
(* the (j-1)-th and the j-th separator.                                    *)
split(text, sep) ==
    LET seps == {k \in 1..Len(text) : text[k] = sep}
        n == Cardinality(seps)
        pos(j) == IF j = 0 THEN 0
                  ELSE IF j = n + 1 THEN Len(text) + 1
                  ELSE CHOOSE k \in seps : Cardinality({m \in seps : m < k}) = j - 1
    IN  <<>> \o [j \in 1..(n + 1) |-> SubSeq(text, pos(j - 1) + 1, pos(j) - 1)]

(* int(s) raises ValueError unless s is an optionally signed run of digits *)
(* (surrounding blanks and digit-group underscores are not modelled).      *)
int_ok(s) ==
    LET body == IF Len(s) > 0 /\ s[1] \in {"-", "+"} THEN Tail(s) ELSE s
    IN  Len(body) > 0 /\ \A i \in 1..Len(body) : IsDigit(body[i])

RECURSIVE nat_of(_)
nat_of(s) ==
    IF Len(s) = 0 THEN 0
    ELSE 10 * nat_of(SubSeq(s, 1, Len(s) - 1)) + DigitVal(s[Len(s)])

int(s) ==
    IF s[1] = "-" THEN 0 - nat_of(Tail(s))
    ELSE IF s[1] = "+" THEN nat_of(Tail(s))
    ELSE nat_of(s)

(* str(n) for n >= 0: used to build the payloads fed to the parser. *)
RECURSIVE str(_)
str(n) == IF n < 10 THEN <<Digits[n + 1]>> ELSE str(n \div 10) \o <<Digits[(n % 10) + 1]>>

-----------------------------------------------------------------------------
(* Policies and documents *)

(* A policy descriptor of the listing: name, guid and the link of its XML. *)
Policy(i) == [name |-> <<"P">> \o str(i), guid |-> <<"G">> \o str(i), links |-> i]

Links == 1..MaxPolicies

Item(text, src) == [text |-> text, src |-> src]

Doc(wellformed, info, process) ==
    [wellformed |-> wellformed, info |-> info, process |-> process]

EmptyDoc == Doc(TRUE, <<>>, <<>>)

(* A response body that is no XML document (an error page, a JSON error). *)
NotXml == Doc(FALSE, <<>>, <<>>)

-----------------------------------------------------------------------------
(* DataFrames *)

(* The element of a one-element set.  {F(x) : x \in {e}} evaluates e once, *)
(* however often F uses x.                                                *)
the(S) == CHOOSE x \in S : TRUE

(* pd.DataFrame(): no rows. *)
DataFrame == EmptyBag

(* DataFrame.append(row or frame, ignore_index=True) *)
append(df, other) == df (+) other

len(df) == BagCardinality(df)

(* The distinct rows of df. *)
rows_of(df) == BagToSet(df)

(* The rows of df that are in S, with their multiplicities. *)
select(df, S) == [r \in S |-> df[r]]

Pow2(k) == 2 ^ k

(* Faulty variant of bit: the shift is off by one. *)
bit_wrong(e_flag, k) == (e_flag \div Pow2(k + 1)) % 2 = 1

(* bool(e_flag & (0b1 << k)) *)
bit(e_flag, k) == (e_flag \div Pow2(k)) % 2 = 1

(* The dictionary parse_path_exclusions appends for one payload. *)
path_item(policy, exclusion, src) ==
    [p_name |-> policy.name,
     p_guid |-> policy.guid,
     e_class |-> "path",
     e_type |-> exclusion[2],
     e_value |-> exclusion[5],
     src |-> src]

(* The dictionary parse_process_exclusions appends for one payload. *)
process_item(policy, exclusion, src) ==
    LET e_flag == int(exclusion[5])
    IN  ("Policy Name" :> policy.name) @@
        ("Policy GUID" :> policy.guid) @@
        ("Polcy Class" :> "process") @@
        ("Exclusion Version" :> exclusion[1]) @@
        ("Exclusion Auth Type" :> exclusion[2]) @@
        ("Exclusion Hash" :> exclusion[3]) @@
        ("Exclusion Path" :> exclusion[4]) @@
        ("Exclusion Flag" :> e_flag) @@
        ("File Scan Child" :> bit(e_flag, 0)) @@
        ("Scan Files Written" :> bit(e_flag, 1)) @@
        ("System Process Protection" :> bit(e_flag, 2)) @@
        ("System Process Protection Child" :> bit(e_flag, 3)) @@
        ("Malicious Activity" :> bit(e_flag, 4)) @@
        ("Malicious Activity Child" :> bit(e_flag, 5)) @@
        ("Self Protect" :> bit(e_flag, 6)) @@
        ("Self Protect Child" :> bit(e_flag, 7)) @@
        ("src" :> src)

(* What a call returns: the exception it raised ("none" if it returned) *)
(* and the frame it returned.                                            *)
Returned(frame) == [exc |-> "none", frame |-> frame]

Raised(exc) == [exc |-> exc, frame |-> DataFrame]

(* exclusion[1] and exclusion[4] of the source are fields 2 and 5 here. *)
path_item_raises(item) == Len(split(item.text, "|")) < 5

(* int(exclusion[4]): IndexError on a short payload, else ValueError on a *)
(* field that is no integer                                                *)
process_item_raises(item) ==
    the({IF Len(exclusion) < 5 THEN "IndexError"
         ELSE IF ~int_ok(exclusion[5]) THEN "ValueError"
         ELSE "none" : exclusion \in {split(item.text, "|")}})

(* The frame after the loop has appended the rows of all the payloads. *)
path_rows(policy, items) ==
    LET rows[k \in 0..Len(items)] ==
            IF k = 0 THEN DataFrame
            ELSE append(rows[k - 1],
                        SetToBag({path_item(policy, exclusion, items[k].src) :
                                    exclusion \in {split(items[k].text, "|")}}))
    IN  rows[Len(items)]

process_rows(policy, items) ==
    LET rows[k \in 0..Len(items)] ==
            IF k = 0 THEN DataFrame
            ELSE append(rows[k - 1],
                        SetToBag({process_item(policy, exclusion, items[k].src) :
                                    exclusion \in {split(items[k].text, "|")}}))
    IN  rows[Len(items)]

(* AMP4EP.parse_path_exclusions: the first payload with fewer than five *)
(* fields raises IndexError out of the loop, and so out of the call.    *)
parse_path_exclusions(policy, xml) ==
    IF \E i \in 1..Len(xml.info) : path_item_raises(xml.info[i])
    THEN Raised("IndexError")
    ELSE Returned(path_rows(policy, xml.info))

(* AMP4EP.parse_process_exclusions: the first bad payload raises. *)
parse_process_exclusions(policy, xml) ==
    the({IF \E i \in DOMAIN raises : raises[i] # "none"
         THEN Raised(raises[CHOOSE i \in DOMAIN raises :
                               /\ raises[i] # "none"
                               /\ \A j \in 1..(i - 1) : raises[j] = "none"])
         ELSE Returned(process_rows(policy, xml.process)) :
         raises \in {<<>> \o [i \in 1..Len(xml.process) |->
                                process_item_raises(xml.process[i])]}})

-----------------------------------------------------------------------------
(* exclusion_report *)

Threat == <<"T", "h", "r", "e", "a", "t">>

Path == <<"P", "a", "t", "h">>

FileExtension == <<"F", "i", "l", "e", " ", "E", "x", "t", "e", "n", "s", "i", "o", "n">>

FileName == <<"F", "i", "l", "e", " ", "N", "a", "m", "e">>

Process == <<"P", "r", "o", "c", "e", "s", "s">>

Wildcard == <<"W", "i", "l", "d", "c", "a", "r", "d">>

(* margins_name, and the column the pivot's 'Policy GUID' is renamed to *)
TotalExclusions ==
    <<"T", "o", "t", "a", "l", " ", "E", "x", "c", "l", "u", "s", "i", "o", "n", "s">>

(* path_exc.rename(columns={'1': 'Threat', ...}): other labels are kept *)
rename(c) ==
    CASE c = <<"1">> -> Threat
      [] c = <<"2">> -> Path
      [] c = <<"3">> -> FileExtension
      [] c = <<"4">> -> FileName
      [] c = <<"5">> -> Process
      [] c = <<"6">> -> Wildcard
      [] OTHER -> c

(* pd.crosstab(path.p_name, path.e_type, margins=True,                  *)
(* margins_name='Total Exclusions'): one row per policy name that has a *)
(* row in path, one column per type code, the margin column, and the    *)
(* margin row, which is the last row.                                   *)
(* Faulty variant of crosstab_total: equal rows are counted once. *)
crosstab_total_wrong(path, n) == Cardinality({r \in rows_of(path) : r.p_name = n})

(* The margin column of the crosstab: the number of rows of the policy. *)
crosstab_total(path, n) == len(select(path, {r \in rows_of(path) : r.p_name = n}))

crosstab(path) ==
    LET names == {r.p_name : r \in rows_of(path)}
        types == {r.e_type : r \in rows_of(path)}
    IN  [n \in names \cup {TotalExclusions} |->
           [c \in types \cup {TotalExclusions} |->
              IF n = TotalExclusions
              THEN IF c = TotalExclusions THEN len(path)
                   ELSE len(select(path, {r \in rows_of(path) : r.e_type = c}))
              ELSE IF c = TotalExclusions THEN crosstab_total(path, n)
                   ELSE len(select(path, {r \in rows_of(path) :
                                            r.p_name = n /\ r.e_type = c}))]]

rename_columns(table) ==
    [n \in DOMAIN table |->
       [d \in {rename(c) : c \in DOMAIN table[n]} |->
          table[n][CHOOSE c \in DOMAIN table[n] : rename(c) = d]]]

(* path_exc.drop(path_exc.index[len(path_exc) - 1]) *)
drop_last_row(table) == [n \in DOMAIN table \ {TotalExclusions} |-> table[n]]

(* process['Exclusion Flag'].apply(lambda x: x in range(0, 3)) *)
file_scan(r) == r["Exclusion Flag"] \in 0..2

(* pd.pivot_table(process, index='Policy Name', aggfunc={'Policy GUID': len, *)
(* the others: np.sum}) with 'Policy GUID' renamed to 'Total Exclusions'.    *)
(* The columns of the pivot are fixed, so they are named by strings; np.sum  *)
(* of a column of booleans is the number of rows that hold True.             *)
pivot_table(process) ==
    LET names == {r["Policy Name"] : r \in rows_of(process)}
        group(n) == {r \in rows_of(process) : r["Policy Name"] = n}
        sum(n, col) == len(select(process, {r \in group(n) : r[col]}))
    IN  [n \in names |->
           ("File Scan" :> len(select(process, {r \in group(n) : file_scan(r)}))) @@
           ("File Scan Child" :> sum(n, "File Scan Child")) @@
           ("System Process Protection" :> sum(n, "System Process Protection")) @@
           ("System Process Protection Child" :>
                sum(n, "System Process Protection Child")) @@
           ("Malicious Activity" :> sum(n, "Malicious Activity")) @@
           ("Malicious Activity Child" :> sum(n, "Malicious Activity Child")) @@
           ("Total Exclusions" :> len(select(process, group(n))))]

(* Faulty variant of in_caution_range: range(90, 100). *)
in_caution_range_wrong(total) == 90 <= total /\ total < 100

(* row['Total Exclusions'] in range(90, 101) *)
in_caution_range(total) == 90 <= total /\ total <= 100

(* row['Total Exclusions'] > 100 *)
in_warning_range(total) == total > 100

(* What the loops over pvt_process.iterrows() collect for the policies   *)
(* whose total passes the test: the name and the total.                  *)
advisories(pvt, names) ==
    {[name |-> n, total |-> pvt[n]["Total Exclusions"]] : n \in names}

Block(head, rows) == [head |-> head, rows |-> rows]

(* What exclusion_report prints, in order. *)
printed(caution, warning) ==
    <<Block("Path exclusion count for policy by type", {}),
      Block("Process exclusion types by policy", {})>>
    \o (IF caution # {} THEN <<Block("CAUTION", caution)>> ELSE <<>>)
    \o (IF warning # {} THEN <<Block("WARNING", warning)>> ELSE <<>>)

(* AMP4EP.exclusion_report.  A frame without rows has no columns: reading *)
(* path.p_name (AttributeError) or process['Exclusion Flag'] (KeyError)   *)
(* raises before anything is saved or printed.                            *)
exclusion_report ==
    /\ main_pc = "report"
    /\ IF df_paths = DataFrame \/ df_processes = DataFrame
       THEN /\ main_pc' = "crashed"
            /\ crash' = "exclusion_report"
            /\ UNCHANGED <<path_exc, pvt_process, caution_list, warning_list, output>>
       ELSE \E pvt \in {pivot_table(df_processes)} :
              \E caution \in {advisories(pvt, {n \in DOMAIN pvt :
                                    in_caution_range(pvt[n]["Total Exclusions"])})} :
                \E warning \in {advisories(pvt, {n \in DOMAIN pvt :
                                    in_warning_range(pvt[n]["Total Exclusions"])})} :
                  /\ path_exc' = drop_last_row(rename_columns(crosstab(df_paths)))
                  /\ pvt_process' = pvt
                  /\ caution_list' = caution
                  /\ warning_list' = warning
                  /\ output' = printed(caution, warning)
                  /\ main_pc' = "done"
                  /\ crash' = crash
    /\ UNCHANGED <<policies, submitted, task, queue, yielded, cur, list_response,
                   responses, files, log_errors, df_paths, df_processes, arg_xml, ret>>

-----------------------------------------------------------------------------
(* Initial values shared by the specifications *)

Tasks == {"get_policy", "parse_path_exclusions", "parse_process_exclusions"} \X Links

NoTask == [st |-> "none", exc |-> "none", root |-> EmptyDoc, frame |-> DataFrame]

NoResponse == [received |-> FALSE, status_code |-> 0, body |-> EmptyDoc]

NoListResponse == [received |-> FALSE, status_code |-> 0, json |-> "none", count |-> 0]

NoCur == [link |-> 0, policy |-> Policy(0), xml |-> EmptyDoc]

NoFile == [written |-> FALSE, text |-> EmptyDoc]

NotCalled == [called |-> FALSE, exc |-> "none", frame |-> DataFrame]

InitPipeline ==
    /\ crash = "none"
    /\ policies = <<>>
    /\ submitted = 0
    /\ task = [t \in Tasks |-> NoTask]
    /\ queue = <<>>
    /\ yielded = {}
    /\ cur = NoCur
    /\ list_response = NoListResponse
    /\ responses = [i \in Links |-> NoResponse]
    /\ files = [i \in Links |-> NoFile]
    /\ log_errors = {}

InitReport ==
    /\ path_exc = <<>>
    /\ pvt_process = <<>>
    /\ caution_list = {}
    /\ warning_list = {}
    /\ output = <<>>

InitParse ==
    /\ arg_xml = EmptyDoc
    /\ ret = NotCalled

-----------------------------------------------------------------------------
(* SpecParse: parse_process_exclusions applied to one document *)

(* "1|0|a|b|<flag>" *)
ProcessPayload(flag) == <<"1", "|", "0", "|", "a", "|", "b", "|">> \o flag

ParseInputs ==
    {Doc(TRUE, <<>>, <<Item(ProcessPayload(str(f)), 1)>>) : f \in 0..MaxFlag}

InitParseSpec ==
    /\ main_pc = "parse"
    /\ InitPipeline
    /\ InitReport
    /\ df_paths = DataFrame
    /\ df_processes = DataFrame
    /\ arg_xml \in ParseInputs
    /\ ret = NotCalled

call_parse_process_exclusions ==
    /\ main_pc = "parse"
    /\ ~ret.called
    /\ ret' = [called |-> TRUE] @@ parse_process_exclusions(Policy(1), arg_xml)
    /\ UNCHANGED <<main_pc, crash, policies, submitted, task, queue, yielded, cur,
                   list_response, responses, files, log_errors, df_paths, df_processes,
                   path_exc, pvt_process, caution_list, warning_list, output, arg_xml>>

NextParse == call_parse_process_exclusions

SpecParse == InitParseSpec /\ [][NextParse]_vars

-----------------------------------------------------------------------------
(* SpecReport: exclusion_report applied to merged frames *)

(* n copies of one row *)
Copies(row, n) == IF n = 0 THEN DataFrame ELSE [r \in {row} |-> n]

PathPayload(type) == <<"1", "|">> \o type \o <<"|", "x", "|", "y", "|", "c">>

PathRow(i, type) == path_item(Policy(i), split(PathPayload(type), "|"), i)

ProcessRow(i, flag) == process_item(Policy(i), split(ProcessPayload(str(flag)), "|"), i)

ReportTotals == {0, 1, 89, 90, 95, 100, 101, 105}

ReportPathFrames ==
    {DataFrame,
     Copies(PathRow(1, <<"2">>), 2) (+) Copies(PathRow(1, <<"6">>), 1)
        (+) Copies(PathRow(2, <<"2">>), 3),
     Copies(PathRow(1, <<"7">>), 95) (+) Copies(PathRow(3, <<"1">>), 1)
        (+) Copies(PathRow(3, <<"7">>), 2)}

ReportProcessFrames ==
    {Copies(ProcessRow(1, f), n1) (+) Copies(ProcessRow(2, 3), n2)
        (+) Copies(ProcessRow(2, 0), k) (+) Copies(ProcessRow(3, 21), n3) :
     f \in {2, 7}, n1 \in ReportTotals, n2 \in ReportTotals, k \in {0, 1}, n3 \in {0, 50}}

InitReportSpec ==
    /\ main_pc = "report"
    /\ InitPipeline
    /\ InitReport
    /\ InitParse
    /\ df_paths \in ReportPathFrames
    /\ df_processes \in ReportProcessFrames

NextReport == exclusion_report

SpecReport == InitReportSpec /\ [][NextReport]_vars

-----------------------------------------------------------------------------
(* Spec: main() *)

(* What the API may answer. *)
ShortPathPayload == <<"1", "|", "2", "|", "x">>

PolicyDocs(i) ==
    {EmptyDoc,
     Doc(TRUE, <<Item(PathPayload(<<"2">>), i), Item(PathPayload(<<"2">>), i),
                 Item(PathPayload(<<"7">>), i)>>,
               <<Item(ProcessPayload(str(7)), i), Item(ProcessPayload(str(2)), i)>>),
     Doc(TRUE, <<Item(PathPayload(<<"2">>), i), Item(ShortPathPayload, i),
                 Item(PathPayload(<<"6">>), i)>>,
               <<Item(ProcessPayload(str(7)), i)>>),
     Doc(TRUE, <<Item(PathPayload(<<"1">>), i)>>,
               <<Item(ProcessPayload(str(7)), i), Item(ProcessPayload(<<"x">>), i),
                 Item(ProcessPayload(str(130)), i)>>)}

PolicyResponses(i) ==
    {[received |-> TRUE, status_code |-> 200, body |-> d] : d \in PolicyDocs(i)}
    \cup {[received |-> TRUE, status_code |-> 404, body |-> d] : d \in {NotXml, EmptyDoc}}

ListResponses ==
    {[received |-> TRUE, status_code |-> 200, json |-> "data", count |-> n] :
        n \in 0..MaxPolicies}
    \cup {[received |-> TRUE, status_code |-> 401, json |-> "nodata", count |-> 0],
          [received |-> TRUE, status_code |-> 500, json |-> "invalid", count |-> 0]}

ListUrl == <<"u", "r", "l">>

(* HttpResp.status: a response that is not 2xx is logged as an error; *)
(* nothing is raised and nothing is returned.                         *)
HttpResp_status(log, response, query) ==
    IF response.status_code \div 100 # 2 THEN log \cup {query} ELSE log

(* The executor *)
Finished(t) == task[t].st \in {"done", "raised"}

Pending(t) == task[t].st \in {"queued", "running"}

worker_free == Cardinality({t \in Tasks : task[t].st = "running"}) < max_workers

(* executor.submit(fn, ...) *)
submit(t) ==
    /\ queue' = Append(queue, t)
    /\ task' = [task EXCEPT ![t].st = "queued"]

(* Future.result() of a finished call *)
Done(result) ==
    [st |-> IF result.exc = "none" THEN "done" ELSE "raised",
     exc |-> result.exc, root |-> EmptyDoc, frame |-> result.frame]

(* Faulty variant of future_get_policy: the policy submitted last. *)
future_get_policy_wrong(pols, i) == pols[Len(pols)]

(* The dictionary future_get_policy: the policy a future was submitted for *)
future_get_policy(pols, i) == pols[i]

(* Faulty variant of write_file: the body is written after it has parsed. *)
write_file_wrong(fs, i, text) ==
    IF text.wellformed THEN [fs EXCEPT ![i] = [written |-> TRUE, text |-> text]] ELSE fs

(* file.write(response.text): the body is written whatever it holds. *)
write_file(fs, i, text) == [fs EXCEPT ![i] = [written |-> TRUE, text |-> text]]

(* AMP4EP.get_policy_list, called by main() before the pool exists.     *)
(* response.json() raises on a body that is no JSON and policies['data'] *)
(* raises KeyError on a JSON body without 'data'.                        *)
get_policy_list ==
    /\ main_pc = "start"
    /\ \E response \in ListResponses :
         /\ list_response' = response
         /\ log_errors' = HttpResp_status(log_errors, response, ListUrl)
         /\ IF response.json = "data"
            THEN /\ policies' = [i \in 1..response.count |-> Policy(i)]
                 /\ main_pc' = IF response.count = 0 THEN "as_completed" ELSE "submit"
                 /\ crash' = crash
            ELSE /\ policies' = policies
                 /\ main_pc' = "crashed"
                 /\ crash' = "get_policy_list"
    /\ UNCHANGED <<submitted, task, queue, yielded, cur, responses, files, df_paths,
                   df_processes, path_exc, pvt_process, caution_list, warning_list,
                   output, arg_xml, ret>>

(* executor.submit(AMP4EP.get_policy, policy), one policy of the list *)
submit_get_policy ==
    /\ main_pc = "submit"
    /\ submit(<<"get_policy", policies[submitted + 1].links>>)
    /\ submitted' = submitted + 1
    /\ main_pc' = IF submitted + 1 = Len(policies) THEN "as_completed" ELSE "submit"
    /\ UNCHANGED <<crash, policies, yielded, cur, list_response, responses, files,
                   log_errors, df_paths, df_processes, path_exc, pvt_process,
                   caution_list, warning_list, output, arg_xml, ret>>

(* A worker takes get_policy(policy) from the queue and sends the request. *)
start_get_policy(i) ==
    /\ queue # <<>>
    /\ Head(queue) = <<"get_policy", i>>
    /\ worker_free
    /\ queue' = Tail(queue)
    /\ task' = [task EXCEPT ![<<"get_policy", i>>].st = "running"]
    /\ UNCHANGED <<main_pc, crash, policies, submitted, yielded, cur, list_response,
                   responses, files, log_errors, df_paths, df_processes, path_exc,
                   pvt_process, caution_list, warning_list, output, arg_xml, ret>>

(* AMP4EP.get_policy from the response on: the status is logged, the body *)
(* is written to the policy's file, the body is parsed (ET.fromstring     *)
(* raises ParseError on a body that is no XML).                           *)
get_policy(i) ==
    /\ task[<<"get_policy", i>>].st = "running"
    /\ \E response \in PolicyResponses(i) :
         /\ responses' = [responses EXCEPT ![i] = response]
         /\ log_errors' = HttpResp_status(log_errors, response, Policy(i).name)
         /\ files' = write_file(files, i, response.body)
         /\ task' = [task EXCEPT ![<<"get_policy", i>>] =
                        IF response.body.wellformed
                        THEN [st |-> "done", exc |-> "none", root |-> response.body,
                              frame |-> DataFrame]
                        ELSE [st |-> "raised", exc |-> "ParseError", root |-> EmptyDoc,
                              frame |-> DataFrame]]
    /\ UNCHANGED <<main_pc, crash, policies, submitted, queue, yielded, cur,
                   list_response, df_paths, df_processes, path_exc, pvt_process,
                   caution_list, warning_list, output, arg_xml, ret>>

(* as_completed yields a finished future; policy = future_get_policy[future]; *)
(* policy_xml = future.result(), which raises what get_policy raised;         *)
(* otherwise parse_path_exclusions is submitted.                              *)
as_completed_next ==
    /\ main_pc = "as_completed"
    /\ \E i \in 1..Len(policies) \ yielded :
         /\ Finished(<<"get_policy", i>>)
         /\ yielded' = yielded \cup {i}
         /\ IF task[<<"get_policy", i>>].st = "raised"
            THEN /\ main_pc' = "exit_with"
                 /\ crash' = "get_policy"
                 /\ UNCHANGED <<cur, task, queue>>
            ELSE /\ cur' = [link |-> i, policy |-> future_get_policy(policies, i),
                            xml |-> task[<<"get_policy", i>>].root]
                 /\ submit(<<"parse_path_exclusions", i>>)
                 /\ main_pc' = "wait_paths"
                 /\ crash' = crash
    /\ UNCHANGED <<policies, submitted, list_response, responses, files, log_errors,
                   df_paths, df_processes, path_exc, pvt_process, caution_list,
                   warning_list, output, arg_xml, ret>>

(* A worker runs parse_path_exclusions(policy, policy_xml). *)
run_parse_path_exclusions ==
    /\ queue # <<>>
    /\ Head(queue) = <<"parse_path_exclusions", cur.link>>
    /\ worker_free
    /\ queue' = Tail(queue)
    /\ task' = [task EXCEPT ![Head(queue)] =
                   Done(parse_path_exclusions(cur.policy, cur.xml))]
    /\ UNCHANGED <<main_pc, crash, policies, submitted, yielded, cur, list_response,
                   responses, files, log_errors, df_paths, df_processes, path_exc,
                   pvt_process, caution_list, warning_list, output, arg_xml, ret>>

(* p_paths.result(), the append to df_paths, and the submit of *)
(* parse_process_exclusions                                     *)
merge_paths ==
    /\ main_pc = "wait_paths"
    /\ Finished(<<"parse_path_exclusions", cur.link>>)
    /\ IF task[<<"parse_path_exclusions", cur.link>>].st = "raised"
       THEN /\ main_pc' = "exit_with"
            /\ crash' = "parse_path_exclusions"
            /\ UNCHANGED <<df_paths, task, queue>>
       ELSE /\ df_paths' = append(df_paths, task[<<"parse_path_exclusions", cur.link>>].frame)
            /\ submit(<<"parse_process_exclusions", cur.link>>)
            /\ main_pc' = "wait_processes"
            /\ crash' = crash
    /\ UNCHANGED <<policies, submitted, yielded, cur, list_response, responses, files,
                   log_errors, df_processes, path_exc, pvt_process, caution_list,
                   warning_list, output, arg_xml, ret>>

(* A worker runs parse_process_exclusions(policy, policy_xml). *)
run_parse_process_exclusions ==
    /\ queue # <<>>
    /\ Head(queue) = <<"parse_process_exclusions", cur.link>>
    /\ worker_free
    /\ queue' = Tail(queue)
    /\ task' = [task EXCEPT ![Head(queue)] =
                   Done(parse_process_exclusions(cur.policy, cur.xml))]
    /\ UNCHANGED <<main_pc, crash, policies, submitted, yielded, cur, list_response,
                   responses, files, log_errors, df_paths, df_processes, path_exc,
                   pvt_process, caution_list, warning_list, output, arg_xml, ret>>

(* p_processes.result() and the append to df_processes *)
merge_processes ==
    /\ main_pc = "wait_processes"
    /\ Finished(<<"parse_process_exclusions", cur.link>>)
    /\ IF task[<<"parse_process_exclusions", cur.link>>].st = "raised"
       THEN /\ main_pc' = "exit_with"
            /\ crash' = "parse_process_exclusions"
            /\ UNCHANGED df_processes
       ELSE /\ df_processes' =
                   append(df_processes, task[<<"parse_process_exclusions", cur.link>>].frame)
            /\ main_pc' = "as_completed"
            /\ crash' = crash
    /\ UNCHANGED <<policies, submitted, task, queue, yielded, cur, list_response,
                   responses, files, log_errors, df_paths, path_exc, pvt_process,
                   caution_list, warning_list, output, arg_xml, ret>>

(* as_completed is exhausted: the loop ends and the with block is left. *)
as_completed_done ==
    /\ main_pc = "as_completed"
    /\ yielded = 1..Len(policies)
    /\ main_pc' = "exit_with"
    /\ UNCHANGED <<crash, policies, submitted, task, queue, yielded, cur, list_response,
                   responses, files, log_errors, df_paths, df_processes, path_exc,
                   pvt_process, caution_list, warning_list, output, arg_xml, ret>>

(* Faulty variant of shutdown_returns: shutdown(wait=False). *)
shutdown_nowait == TRUE

(* shutdown(wait=True) returns when the workers have run every queued call. *)
shutdown_returns == \A t \in Tasks : ~Pending(t)

(* ThreadPoolExecutor.__exit__: on the way out of the with block, also when *)
(* an exception leaves it; the exception then ends main().                  *)
executor_exit ==
    /\ main_pc = "exit_with"
    /\ shutdown_returns
    /\ main_pc' = IF crash = "none" THEN "report" ELSE "crashed"
    /\ UNCHANGED <<crash, policies, submitted, task, queue, yielded, cur, list_response,
                   responses, files, log_errors, df_paths, df_processes, path_exc,
                   pvt_process, caution_list, warning_list, output, arg_xml, ret>>

Init ==
    /\ main_pc = "start"
    /\ InitPipeline
    /\ InitReport
    /\ InitParse
    /\ df_paths = DataFrame
    /\ df_processes = DataFrame

Next ==
    \/ get_policy_list
    \/ submit_get_policy
    \/ \E i \in Links : start_get_policy(i)
    \/ \E i \in Links : get_policy(i)
    \/ as_completed_next
    \/ run_parse_path_exclusions
    \/ merge_paths
    \/ run_parse_process_exclusions
    \/ merge_processes
    \/ as_completed_done
    \/ executor_exit
    \/ exclusion_report

Spec == Init /\ [][Next]_vars

(* Every thread that can take a step eventually takes one, and every *)
(* request is eventually answered.                                   *)
FairSpec == Spec /\ WF_vars(Next)

-----------------------------------------------------------------------------
(* Properties *)

RECURSIVE SumOver(_, _)
SumOver(f, S) ==
    IF S = {} THEN 0
    ELSE LET x == CHOOSE y \in S : TRUE IN f[x] + SumOver(f, S \ {x})

(* Number of rows of df, counted row by row, whose column col holds n. *)
RowCount(df, col, n) ==
    SumOver(df, {r \in BagToSet(df) : r[col] = n})

(* Bit k of a natural number, by remainders. *)
BitSet(n, k) == (n % Pow2(k + 1)) >= Pow2(k)

(* The flag written in the payload handed to the parser. *)
InputFlag == CHOOSE f \in 0..MaxFlag : arg_xml.process[1].text = ProcessPayload(str(f))

(* The eight booleans in the order the parser emits them. *)
CodeOrder ==
    <<"File Scan Child", "Scan Files Written", "System Process Protection",
      "System Process Protection Child", "Malicious Activity",
      "Malicious Activity Child", "Self Protect", "Self Protect Child">>

(* The columns that carry the names of the specification's list: file-scan, *)
(* file-scan-for-children, system-process-protection, ...                   *)
NamedOrder ==
    <<"Scan Files Written", "File Scan Child", "System Process Protection",
      "System Process Protection Child", "Malicious Activity",
      "Malicious Activity Child", "Self Protect", "Self Protect Child">>

(* C1, as amended: for every flag value, parse_process_exclusions returns   *)
(* one row that holds the flag and eight booleans, and the k-th boolean in  *)
(* the parser's own order (File Scan Child, Scan Files Written, System      *)
(* Process Protection, System Process Protection Child, Malicious Activity, *)
(* Malicious Activity Child, Self Protect, Self Protect Child) is true iff  *)
(* bit k of the flag is set.                                                *)
C1_DecodedInCodeOrder ==
    ret.called =>
        /\ ret.exc = "none"
        /\ len(ret.frame) = 1
        /\ \A r \in BagToSet(ret.frame) :
             /\ r["Exclusion Flag"] = InputFlag
             /\ \A k \in 0..7 : r[CodeOrder[k + 1]] = BitSet(InputFlag, k)

(* C1 witness: flag 7 decoded: the first three booleans true, the rest false *)
C1_Witness ==
    /\ ret.called
    /\ InputFlag = 7
    /\ \E r \in BagToSet(ret.frame) :
         /\ r["File Scan Child"] /\ r["Scan Files Written"]
         /\ r["System Process Protection"]
         /\ \A k \in 4..8 : ~r[CodeOrder[k]]

(* C1 as stated: file-scan is bit 0 and file-scan-for-children is bit 1 *)
C1_DecodedInNamedOrder ==
    ret.called =>
        \A r \in BagToSet(ret.frame) :
            \A k \in 0..7 : r[NamedOrder[k + 1]] = BitSet(InputFlag, k)

AdvisoryNames(list) == {a.name : a \in list}

BlockIndex(head) == {j \in 1..Len(output) : output[j].head = head}

(* C2: after exclusion_report, a policy row of the pivot is under CAUTION   *)
(* iff its total is in 90..100, under WARNING iff its total exceeds 100,    *)
(* under neither below 90, never under both; the lists name only rows of    *)
(* the pivot with their totals, and CAUTION is printed before WARNING.      *)
C2_Thresholds ==
    main_pc = "done" =>
        /\ \A n \in DOMAIN pvt_process :
             LET total == pvt_process[n]["Total Exclusions"]
             IN  /\ n \in AdvisoryNames(caution_list) <=> total \in 90..100
                 /\ n \in AdvisoryNames(warning_list) <=> total > 100
                 /\ total < 90 =>
                        n \notin AdvisoryNames(caution_list) \cup AdvisoryNames(warning_list)
        /\ AdvisoryNames(caution_list) \cap AdvisoryNames(warning_list) = {}
        /\ \A a \in caution_list \cup warning_list :
             a.name \in DOMAIN pvt_process /\ a.total = pvt_process[a.name]["Total Exclusions"]
        /\ \A j \in BlockIndex("CAUTION") : output[j].rows = caution_list
        /\ \A j \in BlockIndex("WARNING") : output[j].rows = warning_list
        /\ (caution_list # {}) <=> (BlockIndex("CAUTION") # {})
        /\ (warning_list # {}) <=> (BlockIndex("WARNING") # {})
        /\ \A j \in BlockIndex("CAUTION") : \A k \in BlockIndex("WARNING") : j < k

(* C2 witness: one policy with exactly 100 under CAUTION, one over 100 under *)
(* WARNING and one with 50 under neither, both blocks printed                *)
C2_Witness ==
    /\ main_pc = "done"
    /\ \E a \in caution_list : a.total = 100
    /\ \E a \in warning_list : a.total = 101
    /\ \E n \in DOMAIN pvt_process :
         /\ pvt_process[n]["Total Exclusions"] = 50
         /\ n \notin AdvisoryNames(caution_list) \cup AdvisoryNames(warning_list)
    /\ Len(output) = 4

(* C6: after exclusion_report, the path matrix has one row per policy name *)
(* with path records, its 'Total Exclusions' is the sum of the row's       *)
(* per-type counts and the number of path records of that name; the pivot  *)
(* has one row per policy name with process records and its 'Total         *)
(* Exclusions' is the number of process records of that name.              *)
C6_Totals ==
    main_pc = "done" =>
        /\ DOMAIN path_exc = {r.p_name : r \in BagToSet(df_paths)}
        /\ \A n \in DOMAIN path_exc :
             /\ path_exc[n][TotalExclusions] = RowCount(df_paths, "p_name", n)
             /\ path_exc[n][TotalExclusions] =
                    SumOver(path_exc[n], DOMAIN path_exc[n] \ {TotalExclusions})
        /\ DOMAIN pvt_process = {r["Policy Name"] : r \in BagToSet(df_processes)}
        /\ \A n \in DOMAIN pvt_process :
             pvt_process[n]["Total Exclusions"] = RowCount(df_processes, "Policy Name", n)

(* C6 witness: a policy with path records of two types, one type repeated, *)
(* and a policy whose process records are of two kinds                     *)
C6_Witness ==
    /\ main_pc = "done"
    /\ \E n \in DOMAIN path_exc : path_exc[n][Path] = 2 /\ path_exc[n][Wildcard] = 1
    /\ \E n \in DOMAIN pvt_process :
         /\ pvt_process[n]["Total Exclusions"] = 91
         /\ pvt_process[n]["File Scan"] = 1

Failed(response) == response.received /\ response.status_code \div 100 # 2

WellFormedPaths(items) == SelectSeq(items, LAMBDA it : ~path_item_raises(it))

WellFormedProcesses(items) == SelectSeq(items, LAMBDA it : process_item_raises(it) = "none")

(* C3 as stated: a malformed payload is skipped: each parser returns the  *)
(* records of the well-formed payloads of the policy's document, and no   *)
(* run is ended by an exception of a parser.                              *)
C3_MalformedEntrySkipped ==
    /\ \A i \in Links :
         /\ Finished(<<"parse_path_exclusions", i>>) =>
               /\ task[<<"parse_path_exclusions", i>>].st = "done"
               /\ task[<<"parse_path_exclusions", i>>].frame =
                      path_rows(Policy(i), WellFormedPaths(responses[i].body.info))
         /\ Finished(<<"parse_process_exclusions", i>>) =>
               /\ task[<<"parse_process_exclusions", i>>].st = "done"
               /\ task[<<"parse_process_exclusions", i>>].frame =
                      process_rows(Policy(i), WellFormedProcesses(responses[i].body.process))
    /\ crash \notin {"parse_path_exclusions", "parse_process_exclusions"}

(* C4 as stated: when the fetch of a policy was answered with a status    *)
(* that is not 2xx, the failure is logged and the run is not ended by it: *)
(* once main() has ended, every policy's future was handled and           *)
(* exclusion_report was called.                                           *)
C4_FailedFetchTolerated ==
    \A i \in Links :
        Failed(responses[i]) =>
            /\ Policy(i).name \in log_errors
            /\ crash # "get_policy"
            /\ (main_pc \in {"done", "crashed"} /\ crash \notin
                    {"parse_path_exclusions", "parse_process_exclusions"}) =>
                  /\ yielded = 1..Len(policies)
                  /\ (main_pc = "done" \/ crash = "exclusion_report")

(* C5 as stated: when the listing was answered with a status that is not *)
(* 2xx, the failure is logged, no fetch is submitted and main() is not   *)
(* ended by an exception.                                                *)
C5_FailedListingEndsEmpty ==
    Failed(list_response) =>
        /\ ListUrl \in log_errors
        /\ submitted = 0
        /\ crash = "none"

(* C7: once get_policy has received the response of a policy, and so       *)
(* whenever the XML parse of the body was attempted, succeeded or not, and *)
(* whenever a parser ran on it, the policy's file holds the response body. *)
C7_FileWrittenBeforeParse ==
    \A i \in Links :
        /\ responses[i].received =>
              files[i] = [written |-> TRUE, text |-> responses[i].body]
        /\ (\E f \in {"get_policy", "parse_path_exclusions", "parse_process_exclusions"} :
               Finished(<<f, i>>)) => responses[i].received /\ files[i].written

(* C7 witness: a policy whose body was no XML and a policy whose path *)
(* parser raised, both with their file written                        *)
C7_Witness ==
    \E i, j \in Links :
        /\ task[<<"get_policy", i>>].st = "raised"
        /\ files[i] = [written |-> TRUE, text |-> NotXml]
        /\ task[<<"parse_path_exclusions", j>>].st = "raised"
        /\ files[j].written

(* C8: every row of a parser's result and of the merged frames carries    *)
(* the name and the guid of the policy whose document its payload is from *)
C8_RecordsCarryTheirPolicy ==
    LET FromOwnPolicyPath(df) ==
            \A r \in BagToSet(df) :
                r.p_name = Policy(r.src).name /\ r.p_guid = Policy(r.src).guid
        FromOwnPolicyProcess(df) ==
            \A r \in BagToSet(df) :
                /\ r["Policy Name"] = Policy(r["src"]).name
                /\ r["Policy GUID"] = Policy(r["src"]).guid
    IN  /\ FromOwnPolicyPath(df_paths)
        /\ FromOwnPolicyProcess(df_processes)
        /\ \A i \in Links :
             /\ FromOwnPolicyPath(task[<<"parse_path_exclusions", i>>].frame)
             /\ FromOwnPolicyProcess(task[<<"parse_process_exclusions", i>>].frame)

(* C8 witness: the futures of policies 3 and 2 were handled before that of *)
(* policy 1, and each of them gave several path and process records        *)
C8_Witness ==
    /\ Len(policies) >= 3
    /\ 1 \notin yielded
    /\ \A i \in {2, 3} :
         /\ len(select(df_paths, {r \in rows_of(df_paths) : r.src = i})) >= 3
         /\ len(select(df_processes, {r \in rows_of(df_processes) : r["src"] = i})) >= 2

(* C9, as amended: the with block is a full join point: main() is past it  *)
(* (at exclusion_report, done, or ended by an exception) only when no      *)
(* fetch or parse task is queued or running, so the summaries are computed *)
(* after every task has completed; a policy's records are merged as soon   *)
(* as its own fetch and parse tasks have completed.                        *)
C9_JoinBeforeReport ==
    /\ main_pc \in {"report", "done", "crashed"} => \A t \in Tasks : ~Pending(t)
    /\ (path_exc # <<>> \/ pvt_process # <<>> \/ output # <<>>) => main_pc = "done"
    /\ \A r \in BagToSet(df_paths) :
         /\ task[<<"get_policy", r.src>>].st = "done"
         /\ task[<<"parse_path_exclusions", r.src>>].st = "done"
    /\ \A r \in BagToSet(df_processes) :
         /\ task[<<"get_policy", r["src"]>>].st = "done"
         /\ task[<<"parse_process_exclusions", r["src"]>>].st = "done"

(* C9 witness: a run over several policies whose summaries were computed *)
C9_Witness ==
    /\ main_pc = "done"
    /\ Len(policies) >= 2
    /\ pvt_process # <<>>

(* C9 as stated: no record list is merged, and no summary is computed, *)
(* while a fetch or parse task is queued or running                    *)
C9_NoMergeWhileTasksPending ==
    [][(df_paths' # df_paths \/ df_processes' # df_processes \/ main_pc' = "done")
          => \A t \in Tasks : ~Pending(t)]_vars

(* C10 as stated: a run in which the listing succeeded and no fetch task *)
(* raised eventually reaches exclusion_report                            *)
C10_ReachesReport ==
    <>(\/ main_pc = "report"
       \/ crash = "get_policy_list"
       \/ \E i \in Links : task[<<"get_policy", i>>].st = "raised")

(* main() always ends: no wait of the orchestrating thread on a future of *)
(* the pool lasts forever                                                 *)
Termination == <>(main_pc \in {"done", "crashed"})

=============================================================================
